---- MODULE Spec2Model ----
(***************************************************************************)
(* A state-machine model of mixwith.js (src/src/mixwith.js).               *)
(*                                                                         *)
(* Functions (mixins and their wrappers) and classes are heap objects,     *)
(* numbered in order of creation: function f is the f-th entry of fkind,   *)
(* class c the c-th entry of csuper.  0 stands for "no object":            *)
(* Function.prototype as the end of a function's prototype chain, an       *)
(* absent own property, a class without an extends clause.  Class 1 is the *)
(* built-in Object.                                                        *)
(***************************************************************************)
EXTENDS Integers, Sequences, FiniteSets, TLC

\* ------------------------------------------------------------------ bounds
MaxWrapFn == 3    \* functions of a program that only wraps them
MaxDelegateFn == 2 \* functions of a program that wraps and calls HasInstance
MaxApplyFn == 2   \* functions of a program that wraps them and calls apply
MaxApplyClass == 2 \* classes of that program (Object included)
MaxChainClass == 4 \* classes of a program that builds chains of applications
MaxClass == 3     \* classes of the other programs (Object included)
MaxRootClass == 4 \* classes of a program that calls mix() without a superclass
MaxMixins == 2    \* longest argument list given to mix(s).with(...)
MaxFrameMixins == 1 \* the same, in the program that uses every operation
MaxRaiseClass == 2 \* classes of a program whose mixin bodies may raise
MaxRaiseMixins == 1 \* longest argument list that program gives to with()
MaxShareClass == 3 \* classes of a program with two caching mixins
MaxMiss == 2      \* cap of the per-(mixin, superclass) cache-miss counter

VARIABLES
  fkind,      \* fkind[f]: the body of f: "raw" | "bare" | "cached" | "dedupe"
  finner,     \* finner[f]: the `mixin` a decorator's wrapper closes over
  fproto,     \* fproto[f]: Object.getPrototypeOf(f); 0 = Function.prototype
  fwrapped,   \* fwrapped[f]: own property __mixwith_wrappedMixin; 0 = absent
  fhasinst,   \* fhasinst[f]: the `mixin` of f's own [Symbol.hasInstance] method; 0 = absent
  asked,      \* history: the functions HasInstance was called with
  host,       \* what the JavaScript host knows of Symbol.hasInstance
  scope,      \* the functions the program holds a reference to
  csuper,     \* csuper[c]: the class c extends; 0 = none
  cbody,      \* history: cbody[c]: the function literal whose body made c; 0 = none
  applied,    \* applied[c]: own __mixwith_appliedMixin of c.prototype; 0 = absent
  tables,     \* the classes that own a __mixwith_cachedApplications Map
  cache,      \* <<c, f, r>>: the Map owned by class c holds r under key f
  touched,    \* history: functions that were an argument of some wrap call
  core,       \* history: innermost function of an inside-out wrapper stack
  misses,     \* history: <<f, c, n>>: for (f, c), `mixin(superclass)` returned to Cached n times
  stamps,     \* history: <<c, f>>: a call apply(s, f) returned class c
  returned,   \* history: <<f, c, r>>: the program called a Cached(f) wrapper with c, it returned r
  mixed,      \* history: <<ms, r>>: a call mix().with(...ms), superclass omitted, returned r
  last        \* the operation performed last, its arguments and its result

vars == <<fkind, finner, fproto, fwrapped, fhasinst, asked, host, scope, csuper, cbody, applied, tables,
          cache, touched, core, misses, stamps, returned, mixed, last>>

nfn == Len(fkind)
ncls == Len(csuper)
Fns == 1..nfn
Classes == 1..ncls

\* ------------------------------------------------------- wrap() and unwrap()

\* Whether `target` is f or lies on f's prototype chain (fp = the prototype map).
RECURSIVE OnProtoChain(_, _, _)
OnProtoChain(fp, f, target) ==
  IF f = 0 THEN FALSE
  ELSE IF f = target THEN TRUE
  ELSE OnProtoChain(fp, fp[f], target)

\* The property read f[_wrappedMixin]: the nearest own value on f's prototype
\* chain, 0 (undefined) when there is none.
RECURSIVE GetWrapped(_, _, _)
GetWrapped(fp, fw, f) ==
  IF f = 0 THEN 0
  ELSE IF fw[f] # 0 THEN fw[f]
  ELSE GetWrapped(fp, fw, fp[f])

\* unwrap = (wrapper) => wrapper[_wrappedMixin] || wrapper
UnwrapIn(fp, fw, wrapper) ==
  IF GetWrapped(fp, fw, wrapper) # 0 THEN GetWrapped(fp, fw, wrapper) ELSE wrapper

unwrap(wrapper) == UnwrapIn(fproto, fwrapped, wrapper)

\* Object.setPrototypeOf(wrapper, mixin) raises a TypeError when it would close
\* a cycle; setting the prototype a function already has always succeeds.
SetProtoThrows(fp, mixin, wrapper) ==
  /\ fp[wrapper] # mixin
  /\ OnProtoChain(fp, mixin, wrapper)

\* wrap as step 1 of its comment reads: "Sets the prototype of `mixin` to
\* `wrapper`".
WrapProtoReversed(fp, mixin, wrapper) == [fp EXCEPT ![mixin] = wrapper]

\* Object.setPrototypeOf(wrapper, mixin)
WrapProto(fp, mixin, wrapper) == [fp EXCEPT ![wrapper] = mixin]

\* wrap without its guard: the canonical-self is recorded on every call.
WrapMarkUnguarded(fp, fw, mixin) == [fw EXCEPT ![mixin] = mixin]

\* if (!mixin[_wrappedMixin]) { mixin[_wrappedMixin] = mixin; }
WrapMark(fp, fw, mixin) ==
  IF GetWrapped(fp, fw, mixin) = 0 THEN [fw EXCEPT ![mixin] = mixin] ELSE fw

\* ------------------------------------------------------- function objects
\* The function heap as one value, so that a decorator made of several wrap
\* calls (Mixin) is the composition of its steps.
FnState == [fkind |-> fkind, finner |-> finner, fproto |-> fproto,
            fwrapped |-> fwrapped, fhasinst |-> fhasinst, asked |-> asked,
            scope |-> scope, touched |-> touched, core |-> core]

NoFns == [fkind |-> <<>>, finner |-> <<>>, fproto |-> <<>>, fwrapped |-> <<>>,
          fhasinst |-> <<>>, asked |-> {},
          scope |-> {}, touched |-> {}, core |-> <<>>]

\* History of inside-out wrapper stacks, kept for the statement of wrap
\* transitivity: core[w] = f says that w is f itself, first wrapped when it had
\* never been given to wrap, or a then-fresh wrapper put around such a stack, and
\* that no function of the stack from w down to f was re-used as a wrapper since.
CoreAfterWrap(fs, mixin, wrapper) ==
  LET cm == IF mixin \in fs.touched THEN fs.core[mixin] ELSE mixin
      reused(y) == wrapper \in fs.touched /\ OnProtoChain(fs.fproto, y, wrapper)
  IN [y \in 1..Len(fs.core) |->
        IF y = wrapper THEN (IF wrapper \in fs.touched THEN 0 ELSE cm)
        ELSE IF y = mixin THEN (IF reused(mixin) THEN 0 ELSE cm)
        ELSE IF reused(y) THEN 0
        ELSE fs.core[y]]

\* wrap(mixin, wrapper) when setPrototypeOf does not raise.
WrapIn(fs, mixin, wrapper) ==
  LET fp == WrapProto(fs.fproto, mixin, wrapper)
  IN [fs EXCEPT !.fproto = fp,
                !.fwrapped = WrapMark(fp, fs.fwrapped, mixin),
                !.touched = fs.touched \cup {mixin, wrapper},
                !.core = CoreAfterWrap(fs, mixin, wrapper)]

\* A new function object: a function literal of the program (kind "raw",
\* (s) => class extends s {}) or the arrow function a decorator passes to wrap.
NewFn(fs, kind, mixin) ==
  [fs EXCEPT !.fkind = Append(fs.fkind, kind),
             !.finner = Append(fs.finner, mixin),
             !.fproto = Append(fs.fproto, 0),
             !.fwrapped = Append(fs.fwrapped, 0),
             !.fhasinst = Append(fs.fhasinst, 0),
             !.core = Append(fs.core, 0)]

\* The function created last.
Newest(fs) == Len(fs.fkind)

\* The program keeps the value an expression returned.
Keep(fs, f) == [fs EXCEPT !.scope = fs.scope \cup {f}]

\* BareMixin = (mixin) => wrap(mixin, (s) => apply(s, mixin))
BareMixinIn(fs, mixin) ==
  LET n == NewFn(fs, "bare", mixin) IN WrapIn(n, mixin, Newest(n))

\* Cached = (mixin) => wrap(mixin, (superclass) => { ... })
CachedIn(fs, mixin) ==
  LET n == NewFn(fs, "cached", mixin) IN WrapIn(n, mixin, Newest(n))

\* DeDupe = (mixin) => wrap(mixin, (superclass) => ...)
DeDupeIn(fs, mixin) ==
  LET n == NewFn(fs, "dedupe", mixin) IN WrapIn(n, mixin, Newest(n))

\* Mixin = (mixin) => DeDupe(Cached(BareMixin(mixin)))
MixinIn(fs, mixin) ==
  LET b == BareMixinIn(fs, mixin)
      c == CachedIn(b, Newest(b))
  IN DeDupeIn(c, Newest(c))

\* What the host knows of Symbol.hasInstance:
\*   "none"     Symbol.hasInstance is undefined;
\*   "patched"  the program set Symbol.hasInstance = Symbol('hasInstance') itself
\*              (test suite, setup): no function has the method, and the
\*              instanceof operator does not consult it;
\*   "native"   ES2015: Function.prototype[Symbol.hasInstance] exists, and
\*              instanceof calls the method it finds on its right operand.
Hosts == {"none", "patched", "native"}

\* The value of f[Symbol.hasInstance] that is Function.prototype's built-in.
Builtin == 0 - 1

\* The property read f[Symbol.hasInstance] where Symbol.hasInstance is defined:
\* the nearest own method on f's prototype chain (named by the mixin its
\* closure holds), the built-in at Function.prototype on a native host, else 0
\* (undefined).
RECURSIVE GetHasInstance(_, _, _, _)
GetHasInstance(h, fp, fh, f) ==
  IF f = 0 THEN (IF h = "native" THEN Builtin ELSE 0)
  ELSE IF fh[f] # 0 THEN fh[f]
  ELSE GetHasInstance(h, fp, fh, fp[f])

\* HasInstance = (mixin) => {
\*   if (Symbol && Symbol.hasInstance && !mixin[Symbol.hasInstance])
\*     Object.defineProperty(mixin, Symbol.hasInstance, {value(o) {...}});
\*   return mixin; }
HasInstanceIn(h, fs, mixin) ==
  LET fs1 == [fs EXCEPT !.asked = fs.asked \cup {mixin}]
  IN IF h # "none" /\ GetHasInstance(h, fs.fproto, fs.fhasinst, mixin) = 0
       THEN [fs1 EXCEPT !.fhasinst = [fs.fhasinst EXCEPT ![mixin] = mixin]]
       ELSE fs1

SetFnState(fs) ==
  /\ fkind' = fs.fkind
  /\ finner' = fs.finner
  /\ fproto' = fs.fproto
  /\ fwrapped' = fs.fwrapped
  /\ fhasinst' = fs.fhasinst
  /\ asked' = fs.asked
  /\ host' = host
  /\ scope' = fs.scope
  /\ touched' = fs.touched
  /\ core' = fs.core

\* ----------------------------------------------------------------- objects
\* The objects a membership query can be given: null, the prototype object of
\* a class, and an instance of a class (new C()).
Null == [k |-> "null", c |-> 0]
Proto(c) == [k |-> "proto", c |-> c]
Inst(c) == [k |-> "inst", c |-> c]

ObjectClass == 1

\* Object.getPrototypeOf(o); cs is the superclass map.  A class without an
\* extends clause has a prototype that inherits from Object.prototype.
GetPrototypeOf(cs, o) ==
  IF o.k = "inst" THEN Proto(o.c)
  ELSE IF cs[o.c] # 0 THEN Proto(cs[o.c])
  ELSE IF o.c = ObjectClass THEN Null
  ELSE Proto(ObjectClass)

\* isApplicationOf without the comparison: any stamped prototype is accepted.
IsApplicationOfAnyStamp(ap, proto, mixin) ==
  /\ proto.k = "proto"
  /\ ap[proto.c] # 0

\* isApplicationOf = (proto, mixin) =>
\*   proto.hasOwnProperty(_appliedMixin) && proto[_appliedMixin] === unwrap(mixin)
\* for a proto that is an object; ap is the applied-marker map.
IsApplicationOfIn(ap, proto, mixin) ==
  /\ proto.k = "proto"
  /\ ap[proto.c] # 0
  /\ ap[proto.c] = unwrap(mixin)

\* isApplicationOf that answers false for null: proto != null && ...
IsApplicationOfNullSafe(proto) == FALSE

\* proto.hasOwnProperty(...) with proto null raises a TypeError.
IsApplicationOfThrows(proto) == proto = Null

\* hasMixin that stops after the first object.
RECURSIVE HasMixinIn(_, _, _, _)
HasMixinFirstOnly(ap, cs, o, mixin) ==
  IF o = Null THEN FALSE ELSE IsApplicationOfIn(ap, o, mixin)

\* hasMixin: while (o != null) { if (isApplicationOf(o, mixin)) return true;
\*                               o = Object.getPrototypeOf(o); } return false;
HasMixinIn(ap, cs, o, mixin) ==
  IF o = Null THEN FALSE
  ELSE IF IsApplicationOfIn(ap, o, mixin) THEN TRUE
  ELSE HasMixinIn(ap, cs, GetPrototypeOf(cs, o), mixin)

\* Whether hasMixin(o, mixin) raises: it does when a call of isApplicationOf
\* it makes does, before any isApplicationOf has answered true.
RECURSIVE HasMixinThrows(_, _, _, _)
HasMixinThrows(ap, cs, o, mixin) ==
  IF o = Null THEN FALSE
  ELSE IF IsApplicationOfThrows(o) THEN TRUE
  ELSE IF IsApplicationOfIn(ap, o, mixin) THEN FALSE
  ELSE HasMixinThrows(ap, cs, GetPrototypeOf(cs, o), mixin)

\* The objects the loop of hasMixin gives to isApplicationOf, in order.
RECURSIVE HasMixinWalk(_, _, _, _)
HasMixinWalk(ap, cs, o, mixin) ==
  IF o = Null THEN <<>>
  ELSE IF IsApplicationOfIn(ap, o, mixin) THEN <<o>>
  ELSE <<o>> \o HasMixinWalk(ap, cs, GetPrototypeOf(cs, o), mixin)

isApplicationOf(proto, mixin) == IsApplicationOfIn(applied, proto, mixin)

\* hasMixin that starts the walk at o's prototype, not at o itself.
hasMixinFromPrototype(o, mixin) ==
  IF o = Null THEN FALSE
  ELSE HasMixinIn(applied, csuper, GetPrototypeOf(csuper, o), mixin)

hasMixin(o, mixin) == HasMixinIn(applied, csuper, o, mixin)

\* ------------------------------------------------------------ class objects
\* The class heap (and the history the calls leave) as one value, threaded
\* through a call of a mixin function.  res is the value the call returned,
\* made the number of mixin bodies (class expressions) it evaluated; room is
\* the number of classes the program may create in all, and over says that the
\* call needed more than that.  fail is the function literal whose body raises
\* during this call (0: none does), raised says that it did, and threw that
\* the call ended by an exception.  base is the superclass a MixinBuilder
\* holds and calls the invocations its with() made, in order.  looked counts
\* the Map lookups (cachedApplications.get) of the call and mapped the Maps it
\* created.
ClsState(limit) == [room |-> limit, csuper |-> csuper, cbody |-> cbody,
             applied |-> applied, tables |-> tables,
             cache |-> cache, misses |-> misses, stamps |-> stamps,
             returned |-> returned, mixed |-> mixed,
             res |-> 0, made |-> 0, over |-> FALSE,
             fail |-> 0, raised |-> FALSE, threw |-> FALSE,
             base |-> 0, calls |-> <<>>,
             looked |-> 0, mapped |-> 0]

\* Map.prototype.get: the entry of c's own Map under key f, 0 (undefined) if none.
CacheGet(ca, c, f) ==
  IF \E t \in ca : t[1] = c /\ t[2] = f
    THEN (CHOOSE t \in ca : t[1] = c /\ t[2] = f)[3]
    ELSE 0

\* A cache that keeps one application per superclass, whatever the mixin.
CacheSetSingle(ca, c, f, r) ==
  {t \in ca : t[1] # c} \cup {<<c, f, r>>}

\* Map.prototype.set
CacheSet(ca, c, f, r) ==
  {t \in ca : ~(t[1] = c /\ t[2] = f)} \cup {<<c, f, r>>}

MissCount(ms, f, c) ==
  IF \E t \in ms : t[1] = f /\ t[2] = c
    THEN (CHOOSE t \in ms : t[1] = f /\ t[2] = c)[3]
    ELSE 0

MissAdd(ms, f, c) ==
  {t \in ms : ~(t[1] = f /\ t[2] = c)} \cup {<<f, c, MissCount(ms, f, c) + 1>>}

\* The Map read as an own property of the class only.
OwnTable(tb, cs, c) == IF c \in tb THEN c ELSE 0

\* The read superclass[_cachedApplications]: the Map of the nearest class on
\* the constructor's prototype chain that owns one (a class inherits the static
\* properties of the class it extends); 0 (undefined) when there is none.
RECURSIVE TableOwner(_, _, _)
TableOwner(tb, cs, c) ==
  IF c = 0 THEN 0
  ELSE IF c \in tb THEN c
  ELSE TableOwner(tb, cs, cs[c])

\* The mixin's body (s) => class extends s {}: one new class that extends s.
\* A body that raises creates nothing; `class extends undefined` is a TypeError.
RawBody(st, f, s) ==
  IF f = st.fail THEN [st EXCEPT !.raised = TRUE, !.threw = TRUE, !.res = 0]
  ELSE IF s = 0 THEN [st EXCEPT !.threw = TRUE, !.res = 0]
  ELSE IF Len(st.csuper) >= st.room THEN [st EXCEPT !.over = TRUE]
  ELSE [st EXCEPT !.csuper = Append(st.csuper, s),
                  !.cbody = Append(st.cbody, f),
                  !.applied = Append(st.applied, 0),
                  !.res = Len(st.csuper) + 1,
                  !.made = st.made + 1]

\* apply that stores the function it was given, not its unwrapped form.
StampGiven(st, application, mixin) ==
  [st EXCEPT !.applied = [st.applied EXCEPT ![application] = mixin]]

\* application.prototype[_appliedMixin] = unwrap(mixin)
Stamp(st, application, mixin) ==
  [st EXCEPT !.applied = [st.applied EXCEPT ![application] = unwrap(mixin)]]

\* DeDupe that examines the superclass's own prototype only.
DeDupeTestDirect(st, s, mixin) == IsApplicationOfIn(st.applied, Proto(s), mixin)

\* hasMixin(superclass.prototype, mixin)
DeDupeTest(st, s, mixin) == HasMixinIn(st.applied, st.csuper, Proto(s), mixin)

RECURSIVE Invoke(_, _, _)

\* apply that mixes into the hierarchy in place: the classes that extended the
\* superclass are re-parented to the application, so that they gain the mixin.
ApplyInserting(st, s, mixin) ==
  LET r == Invoke(st, mixin, s)
  IN IF r.over \/ r.threw THEN r
     ELSE [Stamp(r, r.res, mixin) EXCEPT
             !.stamps = r.stamps \cup {<<r.res, mixin>>},
             !.csuper = [c \in 1..Len(r.csuper) |->
                           IF r.csuper[c] = s /\ c # r.res THEN r.res
                           ELSE r.csuper[c]]]

\* apply = (superclass, mixin) => { let application = mixin(superclass);
\*   application.prototype[_appliedMixin] = unwrap(mixin); return application; }
ApplyIn(st, s, mixin) ==
  LET r == Invoke(st, mixin, s)
  IN IF r.over \/ r.threw THEN r
     ELSE [Stamp(r, r.res, mixin) EXCEPT !.stamps = r.stamps \cup {<<r.res, mixin>>}]

\* Cached that recovers from a mixin that raises: it caches and returns the
\* superclass.
CachedCallRecovering(st, mixin, s) ==
  LET found == TableOwner(st.tables, st.csuper, s)
      st0 == IF found = 0
               THEN [st EXCEPT !.tables = st.tables \cup {s}, !.mapped = st.mapped + 1]
               ELSE st
      tbl == IF found = 0 THEN s ELSE found
      st1 == [st0 EXCEPT !.looked = st0.looked + 1]
      hit == CacheGet(st1.cache, tbl, mixin)
  IN IF hit # 0 THEN [st1 EXCEPT !.res = hit]
     ELSE IF MissCount(st1.misses, mixin, s) >= MaxMiss THEN [st1 EXCEPT !.over = TRUE]
     ELSE LET r == Invoke([st1 EXCEPT !.misses = MissAdd(st1.misses, mixin, s)],
                          mixin, s)
          IN IF r.over THEN r
             ELSE IF r.threw
               THEN [r EXCEPT !.threw = FALSE, !.res = s, !.misses = st1.misses,
                              !.cache = CacheSet(r.cache, tbl, mixin, s)]
             ELSE [r EXCEPT !.cache = CacheSet(r.cache, tbl, mixin, r.res)]

\* The wrapper function of Cached(mixin), called with superclass s.
CachedCall(st, mixin, s) ==
  LET found == TableOwner(st.tables, st.csuper, s)
      st0 == IF found = 0
               THEN [st EXCEPT !.tables = st.tables \cup {s}, !.mapped = st.mapped + 1]
               ELSE st
      tbl == IF found = 0 THEN s ELSE found
      st1 == [st0 EXCEPT !.looked = st0.looked + 1]
      hit == CacheGet(st1.cache, tbl, mixin)
  IN IF hit # 0 THEN [st1 EXCEPT !.res = hit]
     ELSE IF MissCount(st1.misses, mixin, s) >= MaxMiss THEN [st1 EXCEPT !.over = TRUE]
     ELSE LET r == Invoke([st1 EXCEPT !.misses = MissAdd(st1.misses, mixin, s)],
                          mixin, s)
          IN IF r.over THEN r
             ELSE IF r.threw THEN [r EXCEPT !.misses = st1.misses]
             ELSE [r EXCEPT !.cache = CacheSet(r.cache, tbl, mixin, r.res)]

\* DeDupe that writes the marker of the application itself.
DeDupeCallStamping(st, mixin, s) ==
  IF DeDupeTest(st, s, mixin) THEN [st EXCEPT !.res = s]
  ELSE LET r == Invoke(st, mixin, s)
       IN IF r.over \/ r.threw THEN r ELSE Stamp(r, r.res, mixin)

\* The wrapper function of DeDupe(mixin), called with superclass s.
DeDupeCall(st, mixin, s) ==
  IF DeDupeTest(st, s, mixin) THEN [st EXCEPT !.res = s]
  ELSE Invoke(st, mixin, s)

\* The call f(s) of a function object, by the kind of its body.
Invoke(st, f, s) ==
  CASE fkind[f] = "raw" -> RawBody(st, f, s)
    [] fkind[f] = "bare" -> ApplyIn(st, s, finner[f])
    [] fkind[f] = "cached" -> CachedCall(st, finner[f], s)
    [] fkind[f] = "dedupe" -> DeDupeCall(st, finner[f], s)

\* constructor(superclass) { this.superclass = superclass; }
MixinBuilderNoDefault(st, s) == [st EXCEPT !.base = s]

\* constructor(superclass) { this.superclass = superclass || class {}; }
\* s = 0 stands for an omitted (undefined) superclass.
MixinBuilderNew(st, s) ==
  IF s # 0 THEN [st EXCEPT !.base = s]
  ELSE IF Len(st.csuper) >= st.room THEN [st EXCEPT !.over = TRUE]
  ELSE [st EXCEPT !.csuper = Append(st.csuper, 0),
                  !.cbody = Append(st.cbody, 0),
                  !.applied = Append(st.applied, 0),
                  !.base = Len(st.csuper) + 1]

\* One step (c, m) => m(c) of the reduction, noted in calls.
Step(st, m, c) ==
  LET r == Invoke(st, m, c)
  IN IF r.over \/ r.threw THEN r
     ELSE [r EXCEPT !.calls = Append(r.calls, [f |-> m, arg |-> c, res |-> r.res])]

\* with() that folds from the right: mixins.reduceRight(...)
RECURSIVE ReduceRight(_, _, _)
ReduceRight(st, mixins, c) ==
  IF mixins = <<>> THEN [st EXCEPT !.res = c]
  ELSE LET r == Step(st, mixins[Len(mixins)], c)
       IN IF r.over \/ r.threw THEN r
          ELSE ReduceRight(r, SubSeq(mixins, 1, Len(mixins) - 1), r.res)

\* with(...mixins) { return mixins.reduce((c, m) => m(c), this.superclass); }
RECURSIVE Reduce(_, _, _)
Reduce(st, mixins, c) ==
  IF mixins = <<>> THEN [st EXCEPT !.res = c]
  ELSE LET r == Step(st, Head(mixins), c)
       IN IF r.over \/ r.threw THEN r ELSE Reduce(r, Tail(mixins), r.res)

\* mix(s).with(...mixins)
MixWith(st, s, mixins) ==
  LET b == MixinBuilderNew(st, s)
  IN IF b.over THEN b
     ELSE LET r == Reduce(b, mixins, b.base)
          IN IF r.over \/ r.threw THEN r
             ELSE IF s # 0 THEN r
             ELSE [r EXCEPT !.mixed = r.mixed \cup {<<mixins, r.res>>}]

SetClsState(st) ==
  /\ csuper' = st.csuper
  /\ cbody' = st.cbody
  /\ applied' = st.applied
  /\ tables' = st.tables
  /\ cache' = st.cache
  /\ misses' = st.misses
  /\ stamps' = st.stamps
  /\ returned' = st.returned
  /\ mixed' = st.mixed

\* ----------------------------------------------------------------- actions
NoOp == [op |-> "none", f |-> 0, g |-> 0, s |-> 0, r |-> 0, ms |-> <<>>,
         o |-> Null, threw |-> FALSE, val |-> FALSE,
         made |-> 0, n0 |-> 0, again |-> FALSE, wrote |-> FALSE,
         raised |-> FALSE, base |-> 0, calls |-> <<>>, e |-> 0,
         marks |-> <<>>, entries |-> {}, looked |-> 0, mapped |-> 0,
         walk |-> <<>>]

\* A function literal evaluated by the program: (s) => class extends s {}
DefineMixin(limit) ==
  /\ nfn < limit
  /\ SetFnState(Keep(NewFn(FnState, "raw", 0), nfn + 1))
  /\ last' = [NoOp EXCEPT !.op = "define", !.r = nfn + 1]
  /\ UNCHANGED <<csuper, cbody, applied, tables, cache, misses, stamps, returned, mixed>>

\* wrap(mixin, wrapper) called by the program on two functions it holds.
Wrap(mixin, wrapper) ==
  /\ IF SetProtoThrows(fproto, mixin, wrapper)
       THEN /\ last' = [NoOp EXCEPT !.op = "wrap", !.f = mixin, !.g = wrapper,
                                    !.threw = TRUE]
            /\ UNCHANGED <<fkind, finner, fproto, fwrapped, fhasinst, asked, host, scope, touched, core>>
       ELSE /\ SetFnState(WrapIn(FnState, mixin, wrapper))
            /\ last' = [NoOp EXCEPT !.op = "wrap", !.f = mixin, !.g = wrapper,
                                    !.r = wrapper]
  /\ UNCHANGED <<csuper, cbody, applied, tables, cache, misses, stamps, returned, mixed>>

WrapAny == \E mixin \in scope, wrapper \in scope : Wrap(mixin, wrapper)

\* BareMixin(mixin), Cached(mixin) or DeDupe(mixin) called by the program.
Decorate(kind, mixin) ==
  /\ nfn < MaxApplyFn
  /\ LET fs == CASE kind = "bare" -> BareMixinIn(FnState, mixin)
                  [] kind = "cached" -> CachedIn(FnState, mixin)
                  [] kind = "dedupe" -> DeDupeIn(FnState, mixin)
     IN SetFnState(Keep(fs, Newest(fs)))
  /\ last' = [NoOp EXCEPT !.op = kind, !.f = mixin, !.r = nfn + 1]
  /\ UNCHANGED <<csuper, cbody, applied, tables, cache, misses, stamps, returned, mixed>>

DecorateAny ==
  \E kind \in {"bare", "cached", "dedupe"}, mixin \in scope : Decorate(kind, mixin)

\* class C {} (s = 0) or class C extends s {} evaluated by the program.
DefineClass(limit, s) ==
  /\ ncls < limit
  /\ csuper' = Append(csuper, s)
  /\ applied' = Append(applied, 0)
  /\ last' = [NoOp EXCEPT !.op = "class", !.s = s, !.r = ncls + 1, !.n0 = ncls]
  /\ cbody' = Append(cbody, 0)
  /\ UNCHANGED <<tables, cache, misses, stamps, returned, mixed>>
  /\ UNCHANGED <<fkind, finner, fproto, fwrapped, fhasinst, asked, host, scope, touched, core>>

DefineClassAny(limit) == \E s \in 0..ncls : DefineClass(limit, s)

\* What an operation on classes leaves in `last`: n0 is the number of classes
\* when the operation began.
Done(op, f, s, ms, st) ==
  [NoOp EXCEPT !.op = op, !.f = f, !.s = s, !.ms = ms, !.r = st.res,
               !.threw = st.threw, !.raised = st.raised,
               !.base = st.base, !.calls = st.calls,
               !.made = st.made, !.n0 = ncls,
               !.looked = st.looked, !.mapped = st.mapped]

\* apply(s, mixin) called by the program.
Apply(limit, s, mixin) ==
  /\ \E st \in {ApplyIn(ClsState(limit), s, mixin)} :
        /\ ~st.over
        /\ SetClsState(st)
        /\ last' = Done("apply", mixin, s, <<>>, st)
  /\ UNCHANGED <<fkind, finner, fproto, fwrapped, fhasinst, asked, host, scope, touched, core>>

ApplyAny(limit) == \E s \in Classes, mixin \in scope : Apply(limit, s, mixin)

\* History of the calls of Cached wrappers: what each returned.
Note(st, f, s) ==
  IF fkind[f] = "cached" /\ ~st.threw
    THEN [st EXCEPT !.returned = st.returned \cup {<<finner[f], s, st.res>>}]
    ELSE st

\* f(s) called by the program.
Call(limit, f, s) ==
  /\ \E st \in {Invoke(ClsState(limit), f, s)} :
        /\ ~st.over
        /\ SetClsState(Note(st, f, s))
        /\ last' = Done("call", f, s, <<>>, st)
  /\ UNCHANGED <<fkind, finner, fproto, fwrapped, fhasinst, asked, host, scope, touched, core>>

CallAny(limit) == \E s \in Classes, f \in scope : Call(limit, f, s)

MixinLists == UNION {[1..n -> scope] : n \in 0..MaxMixins}

\* mix(s).with(...mixins), or mix().with(...mixins) (s = 0), called by the
\* program.
With(limit, s, mixins) ==
  /\ \E st \in {MixWith(ClsState(limit), s, mixins)} :
        /\ ~st.over
        /\ SetClsState(st)
        /\ last' = Done("with", 0, s, mixins, st)
  /\ UNCHANGED <<fkind, finner, fproto, fwrapped, fhasinst, asked, host, scope, touched, core>>

WithAny(limit) == \E s \in 0..ncls, mixins \in MixinLists : With(limit, s, mixins)

\* The function literals: the functions whose body the program wrote.
Raws == {f \in Fns : fkind[f] = "raw"}

\* The class heap at a call during which the body of the literal e raises
\* when it is entered (e = 0: no body raises).
Raising(limit, e) == [ClsState(limit) EXCEPT !.fail = e]

\* What such a call leaves in `last` when the body did raise: the literal, and
\* the markers and the cache entries there were when the call began.
Raised(done, e) ==
  IF done.raised
    THEN [done EXCEPT !.e = e, !.marks = applied, !.entries = cache]
    ELSE done

\* apply(s, mixin) called by the program while the body of e would raise.
ApplyRaising(limit, s, mixin, e) ==
  /\ \E st \in {ApplyIn(Raising(limit, e), s, mixin)} :
        /\ ~st.over
        /\ SetClsState(st)
        /\ last' = Raised(Done("apply", mixin, s, <<>>, st), e)
  /\ UNCHANGED <<fkind, finner, fproto, fwrapped, fhasinst, asked, host, scope, touched, core>>

\* f(s) called by the program while the body of e would raise.
CallRaising(limit, f, s, e) ==
  /\ \E st \in {Invoke(Raising(limit, e), f, s)} :
        /\ ~st.over
        /\ SetClsState(Note(st, f, s))
        /\ last' = Raised(Done("call", f, s, <<>>, st), e)
  /\ UNCHANGED <<fkind, finner, fproto, fwrapped, fhasinst, asked, host, scope, touched, core>>

\* mix(s).with(...mixins) called by the program while the body of e would raise.
WithRaising(limit, s, mixins, e) ==
  /\ \E st \in {MixWith(Raising(limit, e), s, mixins)} :
        /\ ~st.over
        /\ SetClsState(st)
        /\ last' = Raised(Done("with", 0, s, mixins, st), e)
  /\ UNCHANGED <<fkind, finner, fproto, fwrapped, fhasinst, asked, host, scope, touched, core>>

ApplyRaisingAny(limit) ==
  \E s \in Classes, mixin \in scope, e \in {0} \cup Raws : ApplyRaising(limit, s, mixin, e)

CallRaisingAny(limit) ==
  \E s \in Classes, f \in scope, e \in {0} \cup Raws : CallRaising(limit, f, s, e)

\* The argument lists of at most len mixins.
ListsUpTo(len) == UNION {[1..n -> scope] : n \in 0..len}

WithRaisingAny(limit, len) ==
  \E s \in 0..ncls, mixins \in ListsUpTo(len), e \in {0} \cup Raws :
    WithRaising(limit, s, mixins, e)

\* hasMixin(o, mixin) called by the program.
HasMixinQuery(o, mixin) ==
  /\ last' = IF HasMixinThrows(applied, csuper, o, mixin)
               THEN [NoOp EXCEPT !.op = "hasMixin", !.o = o, !.f = mixin,
                                 !.threw = TRUE]
               ELSE [NoOp EXCEPT !.op = "hasMixin", !.o = o, !.f = mixin,
                                 !.val = hasMixin(o, mixin),
                                 !.walk = HasMixinWalk(applied, csuper, o, mixin)]
  /\ UNCHANGED <<fkind, finner, fproto, fwrapped, fhasinst, asked, host, scope, touched, core>>
  /\ UNCHANGED <<csuper, cbody, applied, tables, cache, misses, stamps, returned, mixed>>

\* isApplicationOf(proto, mixin) called by the program.
IsApplicationOfQuery(proto, mixin) ==
  /\ last' = IF IsApplicationOfThrows(proto)
               THEN [NoOp EXCEPT !.op = "isApplicationOf", !.o = proto, !.f = mixin,
                                 !.threw = TRUE]
               ELSE [NoOp EXCEPT !.op = "isApplicationOf", !.o = proto, !.f = mixin,
                                 !.val = isApplicationOf(proto, mixin)]
  /\ UNCHANGED <<fkind, finner, fproto, fwrapped, fhasinst, asked, host, scope, touched, core>>
  /\ UNCHANGED <<csuper, cbody, applied, tables, cache, misses, stamps, returned, mixed>>

\* HasInstance(mixin) called by the program.
HasInstanceCall(mixin) ==
  /\ SetFnState(HasInstanceIn(host, FnState, mixin))
  /\ last' = [NoOp EXCEPT !.op = "HasInstance", !.f = mixin, !.r = mixin,
                          !.again = mixin \in asked,
                          !.wrote = HasInstanceIn(host, FnState, mixin).fhasinst # fhasinst]
  /\ UNCHANGED <<csuper, cbody, applied, tables, cache, misses, stamps, returned, mixed>>

HasInstanceAny == \E mixin \in scope : HasInstanceCall(mixin)

\* The method the operator `o instanceof f` calls: on a native host the one
\* it reads from f[Symbol.hasInstance], elsewhere always the ordinary test.
InstanceOfMethod(f) ==
  IF host = "native" THEN GetHasInstance(host, fproto, fhasinst, f) ELSE Builtin

\* The value the program reads as f[Symbol.hasInstance]; where
\* Symbol.hasInstance is undefined the read is f[undefined], undefined.
PredicateMethod(f) ==
  IF host = "none" THEN 0 ELSE GetHasInstance(host, fproto, fhasinst, f)

\* The outcome of calling `method` on f with candidate o.  Calling undefined
\* raises a TypeError.  The ordinary test answers false for a candidate that
\* is not an object and otherwise reads f.prototype, which for an arrow
\* function (every mixin and wrapper here) is undefined: a TypeError.  An
\* installed method is value(o) { return hasMixin(o, mixin); }.
Membership(op, method, f, o) ==
  IF method = 0 \/ (method = Builtin /\ o # Null)
    THEN [NoOp EXCEPT !.op = op, !.f = f, !.o = o, !.threw = TRUE]
    ELSE [NoOp EXCEPT !.op = op, !.f = f, !.o = o,
                      !.val = IF method = Builtin THEN FALSE ELSE hasMixin(o, method)]

\* o instanceof f evaluated by the program.
InstanceOfQuery(o, f) ==
  /\ last' = Membership("instanceof", InstanceOfMethod(f), f, o)
  /\ UNCHANGED <<fkind, finner, fproto, fwrapped, fhasinst, asked, host, scope, touched, core>>
  /\ UNCHANGED <<csuper, cbody, applied, tables, cache, misses, stamps, returned, mixed>>

\* f[Symbol.hasInstance](o) called by the program.
PredicateQuery(o, f) ==
  /\ last' = Membership("predicate", PredicateMethod(f), f, o)
  /\ UNCHANGED <<fkind, finner, fproto, fwrapped, fhasinst, asked, host, scope, touched, core>>
  /\ UNCHANGED <<csuper, cbody, applied, tables, cache, misses, stamps, returned, mixed>>

Objects == {Null} \cup {Proto(c) : c \in Classes} \cup {Inst(c) : c \in Classes}

HasMixinAny == \E o \in Objects, mixin \in scope : HasMixinQuery(o, mixin)
IsApplicationOfAny == \E o \in Objects, mixin \in scope : IsApplicationOfQuery(o, mixin)
InstanceOfAny == \E o \in Objects, f \in scope : InstanceOfQuery(o, f)
PredicateAny == \E o \in Objects, f \in scope : PredicateQuery(o, f)

\* ------------------------------------------------------------ the programs
\* The mixin definitions a program starts with, as the test suite writes them.
\*   "raw"         const E = (s) => class extends s {};
\*   "bare"        const M = BareMixin((s) => class extends s {});
\*   "cached"      E as above; const K = Cached(E);
\*   "dedupe"      E as above; const D = DeDupe(E);
\*   "cachedbare"  M as above; const K = Cached(M);
\*   "dedupebare"  M as above; const D = DeDupe(M);
\*   "mixin"       const X = Mixin((s) => class extends s {});
Decors == {"raw", "bare", "cached", "dedupe", "cachedbare", "dedupebare", "mixin"}

Define(fs, decor) ==
  LET e == NewFn(fs, "raw", 0)
      E == Newest(e)
      b == BareMixinIn(e, E)
      M == Newest(b)
  IN CASE decor = "raw" -> Keep(e, E)
       [] decor = "bare" -> Keep(b, M)
       [] decor = "cached" -> LET k == CachedIn(Keep(e, E), E) IN Keep(k, Newest(k))
       [] decor = "dedupe" -> LET d == DeDupeIn(Keep(e, E), E) IN Keep(d, Newest(d))
       [] decor = "cachedbare" -> LET k == CachedIn(Keep(b, M), M) IN Keep(k, Newest(k))
       [] decor = "dedupebare" -> LET d == DeDupeIn(Keep(b, M), M) IN Keep(d, Newest(d))
       [] decor = "mixin" -> LET x == MixinIn(e, E) IN Keep(x, Newest(x))

\* The heap when the program starts on host h: the built-in Object is the only
\* class.
InitOn(h, fs) ==
  /\ host = h
  /\ fhasinst = fs.fhasinst
  /\ asked = fs.asked
  /\ fkind = fs.fkind
  /\ finner = fs.finner
  /\ fproto = fs.fproto
  /\ fwrapped = fs.fwrapped
  /\ scope = fs.scope
  /\ touched = fs.touched
  /\ core = fs.core
  /\ csuper = <<0>>
  /\ cbody = <<0>>
  /\ applied = <<0>>
  /\ tables = {}
  /\ cache = {}
  /\ misses = {}
  /\ stamps = {}
  /\ returned = {}
  /\ mixed = {}
  /\ last = NoOp

\* The program starts on a host with native Symbol.hasInstance.
InitWith(fs) == InitOn("native", fs)

\* A program that defines one mixin and applies it to classes.
Init == \E d \in Decors : InitWith(Define(NoFns, d))

Next ==
  \/ DefineClassAny(MaxClass)
  \/ ApplyAny(MaxClass)
  \/ CallAny(MaxClass)

Spec == Init /\ [][Next]_vars

\* A program that defines two mixins with Mixin and applies them to classes.
InitOuter == InitWith(Define(Define(NoFns, "mixin"), "mixin"))

NextOuter ==
  \/ DefineClassAny(MaxClass)
  \/ ApplyAny(MaxClass)
  \/ CallAny(MaxClass)

SpecOuter == InitOuter /\ [][NextOuter]_vars

\* A program that defines two caching mixins and calls them with classes.
InitShare == \E d1 \in {"cached", "cachedbare", "mixin"},
                d2 \in {"cached", "cachedbare", "mixin"} :
               InitWith(Define(Define(NoFns, d1), d2))

NextShare ==
  \/ DefineClassAny(MaxShareClass)
  \/ CallAny(MaxShareClass)

SpecShare == InitShare /\ [][NextShare]_vars

\* A program that defines one stamping mixin, decorated with Cached, with
\* DeDupe or composed by Mixin, and uses every operation on classes.
InitFrame == \E d \in {"cachedbare", "dedupebare", "mixin"} :
               InitWith(Define(NoFns, d))

WithShort(limit) ==
  \E s \in 0..ncls, n \in 0..MaxFrameMixins : \E mixins \in [1..n -> scope] :
    With(limit, s, mixins)

NextFrame ==
  \/ DefineClassAny(MaxClass)
  \/ ApplyAny(MaxClass)
  \/ CallAny(MaxClass)
  \/ WithShort(MaxClass)

SpecFrame == InitFrame /\ [][NextFrame]_vars

\* A program that defines one mixin, plain or decorated, and applies it in
\* every way; the body of the mixin may raise during any of the calls.
InitRaise == \E d \in {"raw", "bare", "cached", "dedupe", "mixin"} :
               InitWith(Define(NoFns, d))

NextRaise ==
  \/ DefineClassAny(MaxRaiseClass)
  \/ ApplyRaisingAny(MaxRaiseClass)
  \/ CallRaisingAny(MaxRaiseClass)
  \/ WithRaisingAny(MaxRaiseClass, MaxRaiseMixins)

SpecRaise == InitRaise /\ [][NextRaise]_vars

\* A program that defines functions and calls wrap on them.
InitWrap == InitWith(NoFns)

NextWrap ==
  \/ DefineMixin(MaxWrapFn)
  \/ WrapAny

SpecWrap == InitWrap /\ [][NextWrap]_vars

\* The same on any host, giving functions to HasInstance as well.
InitDelegate == \E h \in Hosts : InitOn(h, NoFns)

NextDelegate ==
  \/ DefineMixin(MaxDelegateFn)
  \/ WrapAny
  \/ HasInstanceAny

SpecDelegate == InitDelegate /\ [][NextDelegate]_vars

\* A program that defines functions, wraps them and applies them with apply.
NextApply ==
  \/ DefineMixin(MaxApplyFn)
  \/ DecorateAny
  \/ WrapAny
  \/ ApplyAny(MaxApplyClass)

SpecApply == InitWrap /\ [][NextApply]_vars

\* A program that defines two mixins and composes them with mix().with().
InitMix == \E d1 \in {"bare", "mixin"}, d2 \in {"bare", "mixin"} :
             InitWith(Define(Define(NoFns, d1), d2))

NextMix ==
  \/ DefineClassAny(MaxClass)
  \/ WithAny(MaxClass)

SpecMix == InitMix /\ [][NextMix]_vars

\* A program that defines one stamping mixin, composes with mix().with(), with
\* and without a superclass, and derives classes from the results.
InitRoot == InitWith(Define(NoFns, "bare"))

NextRoot ==
  \/ DefineClassAny(MaxRootClass)
  \/ WithAny(MaxRootClass)

SpecRoot == InitRoot /\ [][NextRoot]_vars

\* A program that defines two plain mixins E1 and E2 and D1 = DeDupe(E1),
\* applies them with apply and derives classes from the results.
InitStamp == InitWith(Define(Define(NoFns, "dedupe"), "raw"))

NextStamp ==
  \/ DefineClassAny(MaxClass)
  \/ ApplyAny(MaxClass)

SpecStamp == InitStamp /\ [][NextStamp]_vars

\* A program that defines three mixins, plain or stamping, applies them one
\* at a time and derives classes from the results.
InitChain == \E d \in {"raw", "bare"} :
               InitWith(Define(Define(Define(NoFns, d), d), d))

NextChain ==
  \/ DefineClassAny(MaxChainClass)
  \/ ApplyAny(MaxChainClass)
  \/ CallAny(MaxChainClass)

SpecChain == InitChain /\ [][NextChain]_vars

\* A program that defines one stamped mixin, applies it and queries membership.
InitQuery == InitWith(Define(NoFns, "bare"))

NextQuery ==
  \/ DefineClassAny(MaxClass)
  \/ ApplyAny(MaxClass)
  \/ CallAny(MaxClass)
  \/ HasMixinAny
  \/ IsApplicationOfAny

SpecQuery == InitQuery /\ [][NextQuery]_vars

\* A program that defines one mixin, plain, stamping or composed with Mixin,
\* on any host, may give it to HasInstance, applies it and tests membership.
InitInstance == \E h \in Hosts, d \in {"raw", "bare", "mixin"} :
                  InitOn(h, Define(NoFns, d))

NextInstance ==
  \/ HasInstanceAny
  \/ DefineClassAny(MaxClass)
  \/ CallAny(MaxClass)
  \/ InstanceOfAny
  \/ PredicateAny

SpecInstance == InitInstance /\ [][NextInstance]_vars

\* -------------------------------------------------------------- properties
\* The classes whose prototype objects lie on the prototype chain of o.
RECURSIVE Ancestry(_)
Ancestry(o) ==
  IF o = Null THEN {}
  ELSE (IF o.k = "proto" THEN {o.c} ELSE {}) \cup Ancestry(GetPrototypeOf(csuper, o))

\* History: some class in the ancestry of class c was returned by a call of
\* apply whose mixin has the canonical form of E.
AppliedIn(E, c) ==
  \E a \in Ancestry(Proto(c)) :
    \E t \in stamps : t[1] = a /\ unwrap(t[2]) = unwrap(E)

\* The function literal under the decorators of f.
RECURSIVE Body(_)
Body(f) == IF fkind[f] = "raw" THEN f ELSE Body(finner[f])

\* History: some class in the ancestry of class c was made by the body of the
\* function literal that E decorates.
ProducedIn(E, c) ==
  \E a \in Ancestry(Proto(c)) : cbody[a] # 0 /\ cbody[a] = Body(E)

\* C1: right after apply(B, E) has returned, isApplicationOf(result.prototype, E2)
\* is true for every function E2 with the canonical form of E: E itself, the
\* function it unwraps to, and every other wrapper over it.
IdentityRoundTrip ==
  last.op = "apply" =>
    \A E2 \in Fns : unwrap(E2) = unwrap(last.f) => isApplicationOf(Proto(last.r), E2)

\* C1's case: apply was given a wrapper, and a function other than the one
\* given has its canonical form.
IdentityRoundTripWitness ==
  /\ last.op = "apply"
  /\ unwrap(last.f) # last.f
  /\ isApplicationOf(Proto(last.r), last.f)
  /\ isApplicationOf(Proto(last.r), unwrap(last.f))

\* C2: right after apply(B, E) has returned, isApplicationOf(result.prototype, X)
\* is false for every function X whose canonical form differs from E's.
DistinctExtensionRejected ==
  last.op = "apply" =>
    \A X \in Fns : unwrap(X) # unwrap(last.f) => ~isApplicationOf(Proto(last.r), X)

\* C2's case: apply has returned and a function with another canonical form exists.
DistinctExtensionWitness ==
  /\ last.op = "apply"
  /\ \E X \in Fns : unwrap(X) # unwrap(last.f) /\ ~isApplicationOf(Proto(last.r), X)

\* C3: for every Cached(E) the program holds and every base B it has called it
\* with, all those calls returned one and the same type, and Cached ran E's body
\* for B exactly once.
CacheStability ==
  \A K \in scope : \A B \in Classes :
    LET rs == {t \in returned : t[1] = finner[K] /\ t[2] = B}
    IN (fkind[K] = "cached" /\ rs # {}) =>
         /\ Cardinality(rs) = 1
         /\ MissCount(misses, finner[K], B) = 1

\* Cached(E), or Mixin(E) = DeDupe(Cached(BareMixin(E))).
IsCaching(f) ==
  \/ fkind[f] = "cached"
  \/ /\ fkind[f] = "dedupe"
     /\ fkind[finner[f]] = "cached"
     /\ fkind[finner[finner[f]]] = "bare"

\* C4: a call Cached(E)(B) or Mixin(E)(B), made with a B that has no class
\* made by E's body in its ancestry, returns a type whose immediate parent is B.
CachePerBase ==
  (last.op = "call" /\ IsCaching(last.f) /\ ~ProducedIn(last.f, last.s)) =>
    csuper[last.r] = last.s

OrderedComposition ==
  (/\ last.op = "with"
   /\ Len(last.ms) = 2
   /\ unwrap(last.ms[1]) # unwrap(last.ms[2])
   /\ ~ProducedIn(last.ms[1], last.s)
   /\ ~ProducedIn(last.ms[2], last.s)) =>
    /\ isApplicationOf(Proto(last.r), last.ms[2])
    /\ csuper[last.r] # 0
    /\ isApplicationOf(Proto(csuper[last.r]), last.ms[1])
    /\ csuper[csuper[last.r]] = last.s

\* C8: a wrapper stack built from the inside out around a function f that had
\* never been given to wrap, with wrappers that were fresh when put on, unwraps
\* to f at every layer, and f unwraps to itself.
WrapTransitivity ==
  \A w \in Fns : core[w] # 0 => unwrap(w) = core[w] /\ unwrap(core[w]) = core[w]

\* C8's case: unwrap(wrap(wrap(f, g), h)) with h the wrapper put on last.
WrapTransitivityWitness ==
  /\ last.op = "wrap"
  /\ ~last.threw
  /\ core[last.g] # 0
  /\ fproto[last.g] # 0
  /\ fproto[fproto[last.g]] = core[last.g]
  /\ unwrap(last.g) = core[last.g]

\* C9: after any call wrap(f, g) that returned, unwrap(g) equals unwrap(f).
WrapCanonical ==
  (last.op = "wrap" /\ ~last.threw) => unwrap(last.g) = unwrap(last.f)

\* C10, as stated: hasMixin and isApplicationOf called with null return false
\* and raise nothing.
NullQueriesAreFalse ==
  (last.op \in {"hasMixin", "isApplicationOf"} /\ last.o = Null) =>
    ~last.threw /\ ~last.val

\* C10, amended: hasMixin(null, E) returns false and raises nothing, and
\* isApplicationOf(null, E) raises a TypeError.
NullQueries ==
  /\ (last.op = "hasMixin" /\ last.o = Null) => ~last.threw /\ ~last.val
  /\ (last.op = "isApplicationOf" /\ last.o = Null) => last.threw

\* C10's case: isApplicationOf was called with null.
NullQueriesWitness ==
  /\ last.op = "isApplicationOf"
  /\ last.o = Null
  /\ last.threw

\* Mixin(E) = DeDupe(Cached(BareMixin(E))).
IsComposed(f) ==
  /\ fkind[f] = "dedupe"
  /\ fkind[finner[f]] = "cached"
  /\ fkind[finner[finner[f]]] = "bare"

\* C11: on a host with native Symbol.hasInstance, `o instanceof M` for
\* M = Mixin(E) raises nothing and returns hasMixin(o, M), for every object o.
MixinInstanceOf ==
  (host = "native" /\ last.op = "instanceof" /\ IsComposed(last.f)) =>
    ~last.threw /\ last.val = hasMixin(last.o, last.f)

\* C12: HasInstance(E) returns E; a second HasInstance(E) defines nothing; and
\* on a host with native Symbol.hasInstance, once HasInstance(E) was called,
\* E's membership predicate (called by instanceof or directly) raises nothing
\* and returns hasMixin(o, E) for every candidate o.
HasInstanceContract ==
  /\ last.op = "HasInstance" => last.r = last.f
  /\ (last.op = "HasInstance" /\ last.again) => ~last.wrote
  /\ (host = "native" /\ last.op \in {"instanceof", "predicate"} /\ last.f \in asked) =>
       ~last.threw /\ last.val = hasMixin(last.o, last.f)

\* C13: mix(base).with(e1, ..., eN) invokes each extension once, in list
\* order, e1 on the builder's superclass and each next one on the result of the
\* one before, and returns the last result; with an empty list it returns the
\* superclass itself.  The builder's superclass is base when one is given.
LeftFold ==
  last.op = "with" =>
    /\ ~last.threw
    /\ last.s # 0 => last.base = last.s
    /\ Len(last.calls) = Len(last.ms)
    /\ \A i \in 1..Len(last.ms) :
         /\ last.calls[i].f = last.ms[i]
         /\ last.calls[i].arg = IF i = 1 THEN last.base ELSE last.calls[i - 1].res
    /\ last.r = IF last.ms = <<>> THEN last.base
                ELSE last.calls[Len(last.ms)].res

\* C13's case: with() was given two different mixins and each made a class.
LeftFoldWitness ==
  /\ last.op = "with"
  /\ Len(last.ms) = 2
  /\ last.ms[1] # last.ms[2]
  /\ last.calls[2].arg = last.calls[1].res
  /\ last.calls[1].res # last.calls[2].res
  /\ last.r = last.calls[2].res

MarkerWrittenOnce ==
  [][\A c \in Classes : cbody[c] # 0 => applied'[c] = applied[c]]_vars

\* C16: no step of a program that uses apply, the decorators and mix().with()
\* changes the class an existing class extends.
ParentLinksKept ==
  [][\A c \in Classes : csuper'[c] = csuper[c]]_vars

\* C16's case: a mixin was applied to a superclass that other classes extended
\* already, and made a new class.
ParentLinksKeptWitness ==
  /\ last.op \in {"apply", "call", "with"}
  /\ ncls > last.n0
  /\ last.s # 0
  /\ csuper[last.r] = last.s
  /\ \E c \in 1..last.n0 : csuper[c] = last.s

Redo(st) ==
  CASE last.op = "apply" -> ApplyIn(st, last.s, last.f)
    [] last.op = "call" -> Invoke(st, last.f, last.s)
    [] last.op = "with" -> MixWith(st, last.s, last.ms)

\* The heap as a later call finds it, while the body of the literal e still
\* raises: room for every class the call may create, miss counters at zero.
Later(e) ==
  [ClsState(ncls + MaxRaiseMixins + 1) EXCEPT !.fail = e, !.misses = {}]

\* C18: when the body of a literal e raises during apply, a call of a
\* BareMixin, Cached, DeDupe or Mixin function, or mix(B).with(...), the call
\* ends by that exception; no class made by e's body exists that did not exist
\* before, no marker naming e is written, no cache entry whose key decorates e
\* is recorded; and the same call made again enters e's body again.
RaisePropagates ==
  last.raised =>
    /\ last.threw
    /\ \A c \in Classes : cbody[c] = last.e => c <= last.n0
    /\ \A c \in Classes :
         (applied[c] # 0 /\ Body(applied[c]) = last.e) =>
           (c <= Len(last.marks) /\ last.marks[c] = applied[c])
    /\ \A t \in cache \ last.entries : Body(t[2]) # last.e
    /\ LET again == Redo(Later(last.e))
       IN ~again.over /\ again.raised /\ again.threw

\* C18's case: a Cached wrapper was entered with a superclass that had no
\* table, the body raised, and the table the wrapper created has no entry.
RaisePropagatesWitness ==
  /\ last.raised /\ last.threw
  /\ last.op = "call" /\ IsComposed(last.f)
  /\ last.s \in tables
  /\ \A t \in cache : t[1] # last.s

\* C19: a call Mixin(E)(B) made with a B that has a class made by E's body in
\* its ancestry returns B, performs no Map lookup, creates no Map and
\* evaluates no class expression.
DeDupeOutermost ==
  (last.op = "call" /\ IsComposed(last.f) /\ ProducedIn(last.f, last.s)) =>
    /\ ~last.threw
    /\ last.r = last.s
    /\ last.looked = 0
    /\ last.mapped = 0
    /\ last.made = 0

\* The objects on the prototype chain that starts at o, o included.
ChainFrom(o) ==
  (IF o = Null THEN {} ELSE {o}) \cup {Proto(c) : c \in Ancestry(o)}

\* C20: a call hasMixin(o, E) returns; it gave no object to isApplicationOf
\* twice and none that is not on o's prototype chain; its answer is true
\* exactly when o or an object on o's prototype chain satisfies
\* isApplicationOf(., E); and right after apply(B, E) has returned,
\* hasMixin(result.prototype, E) is true.
WalkFindsApplication ==
  /\ last.op = "hasMixin" =>
       /\ ~last.threw
       /\ \A i, j \in 1..Len(last.walk) : last.walk[i] = last.walk[j] => i = j
       /\ \A i \in 1..Len(last.walk) : last.walk[i] \in ChainFrom(last.o)
       /\ last.val <=> \E x \in ChainFrom(last.o) : isApplicationOf(x, last.f)
  /\ (last.op = "apply" /\ ~last.threw) => hasMixin(Proto(last.r), last.f)

\* C20's case: hasMixin was asked of an instance and answered true after it
\* had walked past the instance and a prototype that is no application.
WalkFindsApplicationWitness ==
  /\ last.op = "hasMixin"
  /\ last.o.k = "inst"
  /\ last.val
  /\ Len(last.walk) >= 3

\* C21 as stated: every call apply(B, E) that returns creates exactly one new
\* class, which it returns, and writes the marker unwrap(E) on that class and
\* no other marker.
ApplyCreatesOne ==
  [][(last'.op = "apply" /\ ~last'.threw) =>
       /\ Len(csuper') = ncls + 1
       /\ last'.r = ncls + 1
       /\ applied'[last'.r] = unwrap(last'.f)
       /\ \A c \in Classes : applied'[c] = applied[c]]_vars

\* C21, amended: every call apply(B, E) that returns, returns a class whose
\* marker is unwrap(E), creates at most one new class, and writes no marker of
\* any class but the returned one; a class it creates is the one it returns;
\* and when E is a function literal it creates exactly one class, with parent B.
ApplyStampsResult ==
  [][(last'.op = "apply" /\ ~last'.threw) =>
       /\ applied'[last'.r] = unwrap(last'.f)
       /\ Len(csuper') <= ncls + 1
       /\ \A c \in Classes : c # last'.r => applied'[c] = applied[c]
       /\ Len(csuper') = ncls + 1 => last'.r = ncls + 1
       /\ fkind[last'.f] = "raw" =>
            /\ Len(csuper') = ncls + 1
            /\ csuper'[last'.r] = last'.s]_vars

\* C21's case: apply was called again with a Cached mixin and the same
\* superclass; it created no class and returned the class made before.
ApplyStampsResultWitness ==
  /\ last.op = "apply" /\ ~last.threw
  /\ fkind[last.f] = "cached"
  /\ last.made = 0
  /\ last.r <= last.n0
  /\ csuper[last.r] = last.s
  /\ applied[last.r] = unwrap(last.f)

\* C22: no step changes or removes an entry of a cache Map; in every Map the
\* entries under keys that decorate different function literals are different
\* classes; and the calls of Cached wrappers over different literals with one
\* superclass returned different classes.
CachedIndependent ==
  [][/\ \A t \in cache : t \in cache'
     /\ \A t1, t2 \in cache' :
          (t1[1] = t2[1] /\ Body(t1[2]) # Body(t2[2])) => t1[3] # t2[3]
     /\ \A t1, t2 \in returned' :
          (t1[2] = t2[2] /\ Body(t1[1]) # Body(t2[1])) => t1[3] # t2[3]]_vars

\* C22's case: a Cached wrapper was called with a superclass whose Map held an
\* entry for another mixin; it made a class, and the Map holds both entries.
CachedIndependentWitness ==
  /\ last.op = "call" /\ fkind[last.f] = "cached" /\ last.made = 1
  /\ last.s \in tables
  /\ \E t1, t2 \in cache :
       /\ t1[1] = last.s /\ t2[1] = last.s
       /\ Body(t1[2]) # Body(t2[2])
       /\ t2[2] = finner[last.f] /\ t2[3] = last.r
       /\ <<t1[2], last.s, t1[3]>> \in returned

\* C23: in every state, each entry of the Map a class B owns is a class whose
\* parent is B, and a class a Cached wrapper has just been called with owns the
\* Map the call used.
CacheTableOwnership ==
  /\ \A t \in cache : csuper[t[3]] = t[1]
  /\ (last.op = "call" /\ fkind[last.f] = "cached" /\ ~last.threw) =>
       last.s \in tables

\* The classes in the ancestry of class c whose prototype is an application
\* of E by isApplicationOf.
MarkedLinks(c, E) == {a \in Ancestry(Proto(c)) : isApplicationOf(Proto(a), E)}

\* History: the classes in the ancestry of class c that a call of apply with a
\* mixin of E's canonical form returned.
AppliedLinks(c, E) ==
  {a \in Ancestry(Proto(c)) : \E t \in stamps : t[1] = a /\ unwrap(t[2]) = unwrap(E)}

\* C24: for every class C the program declared with `class C extends A`,
\* where apply returned A for a mixin E: isApplicationOf(C.prototype, E) is
\* false, isApplicationOf(A.prototype, E) and hasMixin(C.prototype, E) are true;
\* and in the ancestry of every class the links that are applications of E by
\* isApplicationOf are as many as the applications of E apply returned.
DirectMarker ==
  /\ \A C \in Classes : \A t \in stamps :
       (cbody[C] = 0 /\ csuper[C] = t[1]) =>
         /\ ~isApplicationOf(Proto(C), t[2])
         /\ isApplicationOf(Proto(t[1]), t[2])
         /\ hasMixin(Proto(C), t[2])
  /\ \A c \in Classes : \A E \in Fns :
       Cardinality(MarkedLinks(c, E)) = Cardinality(AppliedLinks(c, E))

\* History: no call of apply made so far was given a mixin of E's canonical
\* form.
NeverApplied(E) == \A t \in stamps : unwrap(t[2]) # unwrap(E)

\* C25: a call DeDupe(E)(B), for a function literal E that no call of apply was
\* ever given, runs E's body once and returns a new class with parent B and
\* without marker, also when B itself was made by E's body.
DeDupeNeedsMarker ==
  (/\ last.op = "call" /\ ~last.threw
   /\ fkind[last.f] = "dedupe" /\ fkind[finner[last.f]] = "raw"
   /\ NeverApplied(last.f)) =>
    /\ last.made = 1
    /\ last.r = last.n0 + 1
    /\ ncls = last.n0 + 1
    /\ csuper[last.r] = last.s
    /\ cbody[last.r] = finner[last.f]
    /\ \A c \in Classes : applied[c] # unwrap(last.f)

\* C25's case: DeDupe(E) was called with the class an earlier call of
\* DeDupe(E) had returned, and made a second class on top of it.
DeDupeNeedsMarkerWitness ==
  /\ last.op = "call" /\ ~last.threw
  /\ fkind[last.f] = "dedupe" /\ fkind[finner[last.f]] = "raw"
  /\ NeverApplied(last.f)
  /\ cbody[last.s] = finner[last.f]
  /\ last.made = 1
  /\ csuper[last.r] = last.s
  /\ cbody[last.r] = finner[last.f]

====
